---- MODULE Spec2Model ----
(***************************************************************************)
(* State-machine model of the MCP clients of the Replit Copilot extension. *)
(*                                                                         *)
(*   SpecStdio     MCPClient of replit-copilot-extension/src/mcpClient.ts  *)
(*                 (its constructor fixes config.type to 'stdio', so every *)
(*                 connection is the spawned pipe process).                *)
(*   SpecWs        MCPClient of unnamed/part_007 (the socket variant: the  *)
(*                 same sendRequest code as mcpClient.ts lines 246-274).   *)
(*   SpecEnhanced  EnhancedMCPClient of enhancedMcpClient.ts.              *)
(*   SpecConfig    MCPConfigParser of mcpConfigParser.ts and the dispatch  *)
(*                 of EnhancedMCPClient.connectToServer.                   *)
(*   SpecOllama    OllamaClient of unnamed/part_006 (its conversation      *)
(*                 history).                                               *)
(*                                                                         *)
(* Every specification works on its own variables and leaves the others    *)
(* at their initial values.                                                *)
(***************************************************************************)
EXTENDS Integers, Sequences, FiniteSets, TLC

VARIABLES
    connected,       \* MCPClient.connected / EnhancedMCPClient.connected
    stdioProcess,    \* MCPClient.stdioProcess: "undefined" | "live" | "dead"
    requestQueue,    \* MCPClient.requestQueue: id -> call owning the stored handlers
    calls,           \* one record per sendRequest() invocation (its promise and timer)
    now,             \* Date.now()
    stdin,           \* requests written to the child and not yet answered
    stdout,          \* lines written by the child and not yet read
    ws,              \* MCPClient.ws: "undefined" | "connecting" | "open" | "closed"
    listeners,       \* calls whose handleMessage is registered on the socket
    wsSent,          \* requests sent on the socket and not yet answered
    wsRecv,          \* messages sent by the server and not yet delivered
    activeConnections, \* EnhancedMCPClient.activeConnections: its keys, in insertion order
    availableTools,  \* EnhancedMCPClient.availableTools: its keys, in insertion order
    phase,           \* the connectAll() in flight: "idle" | "connecting"
    attempt,         \* per server, the connectToServer() promise of the latest connectAll()
    alive,           \* the servers whose registered transport is up
    orphans,         \* the servers with a running child that no map entry references
    lateHandle,      \* per server, the handle of an attempt its timer ended: "none" | "closed" | "open"
    file,            \* the descriptor document at configPath
    config,          \* MCPConfigParser.config
    conversationHistory, \* OllamaClient.conversationHistory: the roles of its messages
    chatting,        \* a chat() is waiting for the answer of axios.post
    stream,          \* response.data of the streaming chat(): "none" | "open" | "ended" | "errored"
    assistantMessage, \* the tokens the streaming chat() has appended to assistantMessage
    chatPromise,     \* the promise the streaming chat() returned: "none" | "pending" | "resolved" | "rejected"
    last             \* the operation that produced the current state

stdioVars == <<stdioProcess, requestQueue, stdin, stdout>>
wsVars == <<ws, listeners, wsSent, wsRecv>>
enhVars == <<activeConnections, availableTools, phase, attempt, alive, orphans, lateHandle>>
cfgVars == <<file, config>>
ollamaVars == <<conversationHistory, chatting>>
streamVars == <<stream, assistantMessage, chatPromise>>

vars == <<connected, calls, now, last, stdioVars, wsVars, enhVars, cfgVars, ollamaVars, streamVars>>

(* ------------------------------ bounds --------------------------------- *)

MaxCalls == 2
MaxTicks == 1

\* The longest conversation history followed.
MaxHistory == 22

\* The streaming chat(): the longest history followed, the tokens counted
\* in assistantMessage, the lines of one chunk.
MaxStreamHistory == 5
MaxTokens == 2
MaxChunk == 2

(* ------------------------- program constants --------------------------- *)

\* mcpClient.ts line 117: the id the echo child puts on its parse-error frame.
ErrorId == 1

\* part_006 line 97: the history length above which chat() trims.
HistoryLimit == 21

\* part_006 line 100: the messages slice(-20) keeps.
KeepLast == 20

\* Date.now() at start: any value above ErrorId (wall-clock milliseconds).
Epoch == ErrorId + 1

CallIds == 1..MaxCalls

(* --------------------------- promises ---------------------------------- *)

NewCall ==
    [issued |-> FALSE, id |-> 0, timer |-> "unset",
     outcome |-> "none", value |-> 0, settles |-> 0]

\* resolve()/reject() of the promise of call c: only the first one settles it.
\* settles counts the resolve()/reject() invocations: 0, 1 or "more" (2).
Settle(cs, c, kind, val) ==
    [cs EXCEPT ![c].settles = IF @ < 2 THEN @ + 1 ELSE @,
               ![c].outcome = IF cs[c].outcome = "none" THEN kind ELSE @,
               ![c].value   = IF cs[c].outcome = "none" THEN val ELSE @]

\* WrappedSettle without its clearTimeout(timeout).
WrappedSettleKeepsTimer(cs, c, kind, val) ==
    Settle(cs, c, kind, val)

\* The resolve/reject wrappers stored in requestQueue: clearTimeout, then settle.
WrappedSettle(cs, c, kind, val) ==
    Settle([cs EXCEPT ![c].timer = IF @ = "armed" THEN "cleared" ELSE @],
           c, kind, val)

EmptyQueue == [i \in {} |-> 0]

QueueDelete(q, id) == [i \in (DOMAIN q) \ {id} |-> q[i]]

QueueSet(q, id, c) == [i \in (DOMAIN q) \cup {id} |-> IF i = id THEN c ELSE q[i]]

\* The calls whose handlers are stored in the queue.
Owners(q) == {q[i] : i \in DOMAIN q}

Pending(c) == calls[c].issued /\ calls[c].outcome = "none"

NextCall(c) == /\ ~calls[c].issued
               /\ \A d \in CallIds : d < c => calls[d].issued

(* ------------------------------ Init ----------------------------------- *)

\* mcp.json: the servers a descriptor document may name.
Servers == {"A", "B"}

\* The place of each server's key in the document (Object.entries order).
Position == [s \in Servers |-> IF s = "A" THEN 1 ELSE 2]

\* The transport of each server: A is a spawned child, B an HTTP endpoint.
ServerType == [s \in Servers |-> IF s = "A" THEN "stdio" ELSE "http"]

\* new EnhancedMCPClient().
InitEnhVars ==
    /\ activeConnections = <<>>
    /\ availableTools = <<>>
    /\ phase = "idle"
    /\ attempt = [s \in Servers |-> "none"]
    /\ alive = {}
    /\ orphans = {}
    /\ lateHandle = [s \in Servers |-> "none"]

NoEntries == [s \in {} |-> 0]

\* No document at configPath; a document that cannot be read or parsed; a
\* JSON object without a servers object.
Missing == [kind |-> "missing", servers |-> NoEntries]
Unreadable == [kind |-> "unreadable", servers |-> NoEntries]
NoServers == [kind |-> "noservers", servers |-> NoEntries]

\* MCPConfigParser.config before any load.
Null == [kind |-> "null", servers |-> NoEntries]

\* new MCPConfigParser() with no document at configPath.
InitCfgVars ==
    /\ file = Missing
    /\ config = Null

\* new OllamaClient(): updateConfiguration() puts the system message first.
InitOllamaVars ==
    /\ conversationHistory = <<"system">>
    /\ chatting = FALSE

\* No streaming chat() has been called.
InitStreamVars ==
    /\ stream = "none"
    /\ assistantMessage = 0
    /\ chatPromise = "none"

\* new MCPClient() of part_007.
InitWsVars ==
    /\ ws = "undefined"
    /\ listeners = {}
    /\ wsSent = <<>>
    /\ wsRecv = <<>>

\* new MCPClient() of mcpClient.ts.
InitStdioVars ==
    /\ stdioProcess = "undefined"
    /\ requestQueue = EmptyQueue
    /\ stdin = <<>>
    /\ stdout = <<>>

InitStdio ==
    /\ InitOllamaVars
    /\ InitStreamVars
    /\ InitWsVars
    /\ InitCfgVars
    /\ InitEnhVars
    /\ connected = FALSE
    /\ stdioProcess = "undefined"
    /\ requestQueue = EmptyQueue
    /\ calls = [c \in CallIds |-> NewCall]
    /\ now = Epoch
    /\ stdin = <<>>
    /\ stdout = <<>>
    /\ last = [op |-> "init"]

(* ------------------------- MCPClient (stdio) --------------------------- *)

\* connect() -> connectStdio(): spawn the echo child and mark connected; a
\* spawn() that throws leaves the old handle and clears connected.
Connect(spawnOk) ==
    /\ connected' = spawnOk
    /\ stdioProcess' = IF spawnOk THEN "live" ELSE stdioProcess
    /\ last' = [op |-> "connect", ok |-> spawnOk]
    /\ UNCHANGED <<streamVars, ollamaVars, cfgVars, wsVars, enhVars, requestQueue, calls, now, stdin, stdout>>

\* disconnect(): kill the child, clear the queue, clear connected.  The
\* timers of the cleared calls are not cancelled and nobody is rejected.
Disconnect ==
    /\ stdioProcess' = "undefined"
    /\ requestQueue' = EmptyQueue
    /\ connected' = FALSE
    /\ stdin' = <<>>
    /\ last' = [op |-> "disconnect", pending |-> Owners(requestQueue)]
    /\ UNCHANGED <<streamVars, ollamaVars, cfgVars, wsVars, enhVars, calls, now, stdout>>

\* sendRequest() that writes the frame to the child and registers neither
\* timer nor handlers.
SendRequestWriteOnly(c, spawnOk) ==
    /\ NextCall(c)
    /\ LET reconnect == ~connected
           conn == IF reconnect THEN spawnOk ELSE TRUE
           proc == IF reconnect /\ spawnOk THEN "live" ELSE stdioProcess
           id   == now
       IN  /\ connected' = conn
           /\ stdioProcess' = proc
           /\ IF ~conn
              THEN /\ calls' = Settle([calls EXCEPT ![c].issued = TRUE],
                                      c, "notconnected", 0)
                   /\ UNCHANGED stdin
              ELSE /\ calls' = [calls EXCEPT ![c].issued = TRUE, ![c].id = id]
                   /\ stdin' = IF proc = "live"
                               THEN Append(stdin, [id |-> id, call |-> c])
                               ELSE stdin
           /\ last' = [op |-> "sendRequest", call |-> c, overwrote |-> FALSE]
    /\ UNCHANGED <<streamVars, ollamaVars, cfgVars, wsVars, enhVars, requestQueue, now, stdout>>

\* sendRequest(method, params): auto-reconnect when not connected, then
\* id = Date.now(), arm the timer, store the handlers under id, write the
\* frame.  The method and parameters go into the frame untouched and are
\* left out; a response's payload names the call whose request it answers.
SendRequest(c, spawnOk) ==
    /\ NextCall(c)
    /\ LET reconnect == ~connected
           conn == IF reconnect THEN spawnOk ELSE TRUE
           proc == IF reconnect /\ spawnOk THEN "live" ELSE stdioProcess
           id   == now
       IN  /\ connected' = conn
           /\ stdioProcess' = proc
           /\ IF ~conn
              THEN /\ calls' = Settle([calls EXCEPT ![c].issued = TRUE],
                                      c, "notconnected", 0)
                   /\ UNCHANGED <<requestQueue, stdin>>
              ELSE /\ calls' = [calls EXCEPT ![c] =
                                   [issued |-> TRUE, id |-> id,
                                    timer |-> "armed", outcome |-> "none",
                                    value |-> 0, settles |-> 0]]
                   /\ requestQueue' = QueueSet(requestQueue, id, c)
                   /\ stdin' = IF proc = "live"
                               THEN Append(stdin, [id |-> id, call |-> c])
                               ELSE stdin
           /\ last' = [op |-> "sendRequest", call |-> c,
                       overwrote |-> conn /\ id \in DOMAIN requestQueue]
    /\ UNCHANGED <<streamVars, ollamaVars, cfgVars, wsVars, enhVars, now, stdout>>

\* TimerFire without its requestQueue.delete(id).
TimerFireKeepsEntry(c) ==
    /\ calls[c].timer = "armed"
    /\ now > calls[c].id
    /\ calls' = Settle([calls EXCEPT ![c].timer = "fired"], c, "timeout", 0)
    /\ last' = [op |-> "timeout", call |-> c]
    /\ UNCHANGED <<streamVars, ollamaVars, cfgVars, wsVars, enhVars, connected, stdioProcess, requestQueue, now, stdin, stdout>>

\* The setTimeout callback of call c: delete the id, reject with a timeout.
TimerFire(c) ==
    /\ calls[c].timer = "armed"
    /\ now > calls[c].id
    /\ requestQueue' = QueueDelete(requestQueue, calls[c].id)
    /\ calls' = Settle([calls EXCEPT ![c].timer = "fired"], c, "timeout", 0)
    /\ last' = [op |-> "timeout", call |-> c]
    /\ UNCHANGED <<streamVars, ollamaVars, cfgVars, wsVars, enhVars, connected, stdioProcess, now, stdin, stdout>>

\* handleStdioResponse leaving its loop at the first frame it cannot match.
RECURSIVE handleStopsAtOrphan(_, _, _)
handleStopsAtOrphan(lines, q, cs) ==
    IF lines = <<>> THEN [q |-> q, cs |-> cs]
    ELSE LET f == Head(lines) IN
         IF f.kind = "malformed" \/ f.id \notin DOMAIN q THEN [q |-> q, cs |-> cs]
         ELSE handleStopsAtOrphan(Tail(lines), QueueDelete(q, f.id),
                                  WrappedSettle(cs, q[f.id], f.kind, f.payload))

\* handleStdioResponse(data): the lines of one chunk in order; a line that
\* does not parse throws out of the loop and drops the rest of the chunk.
RECURSIVE handleStdioResponse(_, _, _)
handleStdioResponse(lines, q, cs) ==
    IF lines = <<>> THEN [q |-> q, cs |-> cs]
    ELSE LET f == Head(lines) IN
         IF f.kind = "malformed" THEN [q |-> q, cs |-> cs]
         ELSE IF f.id \in DOMAIN q
              THEN handleStdioResponse(Tail(lines), QueueDelete(q, f.id),
                                       WrappedSettle(cs, q[f.id], f.kind, f.payload))
              ELSE handleStdioResponse(Tail(lines), q, cs)

Fragment == [id |-> 0, kind |-> "malformed", payload |-> 0]

\* The stdout 'data' event: a chunk holds the first k lines and, when the
\* chunk boundary falls inside the next line, the head of that line; its
\* tail then starts the next chunk.
Data(k, split) ==
    /\ k \in 0..Len(stdout)
    /\ k > 0 \/ split
    /\ split => k < Len(stdout)
    /\ LET chunk == SubSeq(stdout, 1, k) \o (IF split THEN <<Fragment>> ELSE <<>>)
           r == handleStdioResponse(chunk, requestQueue, calls)
       IN  /\ requestQueue' = r.q
           /\ calls' = r.cs
           /\ stdout' = (IF split THEN <<Fragment>> ELSE <<>>)
                        \o SubSeq(stdout, k + (IF split THEN 2 ELSE 1), Len(stdout))
           /\ last' = [op |-> "data", chunk |-> chunk]
    /\ UNCHANGED <<streamVars, ollamaVars, cfgVars, wsVars, enhVars, connected, stdioProcess, now, stdin>>

(* ------------------------- the child process --------------------------- *)

RemoveAt(s, i) == SubSeq(s, 1, i - 1) \o SubSeq(s, i + 1, Len(s))

\* The child answers one request with a frame carrying the request's id (the
\* echo child always sends a result; the error kind is what another server
\* may send and what the response.error branch of the client handles).
ServerRespond(i, kind) ==
    /\ stdioProcess = "live"
    /\ i \in 1..Len(stdin)
    /\ stdout' = Append(stdout, [id |-> stdin[i].id, kind |-> kind,
                                 payload |-> stdin[i].call])
    /\ stdin' = RemoveAt(stdin, i)
    /\ last' = [op |-> "respond"]
    /\ UNCHANGED <<streamVars, ollamaVars, cfgVars, wsVars, enhVars, connected, stdioProcess, requestQueue, calls, now>>

\* The echo child reads two requests in one stdin chunk: JSON.parse fails and
\* it writes one error frame with id ErrorId.
ServerParseError ==
    /\ stdioProcess = "live"
    /\ Len(stdin) >= 2
    /\ stdout' = Append(stdout, [id |-> ErrorId, kind |-> "error", payload |-> 0])
    /\ stdin' = SubSeq(stdin, 3, Len(stdin))
    /\ last' = [op |-> "parseError"]
    /\ UNCHANGED <<streamVars, ollamaVars, cfgVars, wsVars, enhVars, connected, stdioProcess, requestQueue, calls, now>>

\* The child's 'error' event: the handler clears connected.
ProcError ==
    /\ stdioProcess = "live"
    /\ stdioProcess' = "dead"
    /\ connected' = FALSE
    /\ stdin' = <<>>
    /\ last' = [op |-> "procError"]
    /\ UNCHANGED <<streamVars, ollamaVars, cfgVars, wsVars, enhVars, requestQueue, calls, now, stdout>>

\* The child exits: no handler is registered for it.
ProcExit ==
    /\ stdioProcess = "live"
    /\ stdioProcess' = "dead"
    /\ stdin' = <<>>
    /\ last' = [op |-> "procExit"]
    /\ UNCHANGED <<streamVars, ollamaVars, cfgVars, wsVars, enhVars, connected, requestQueue, calls, now, stdout>>

\* A millisecond passes.
Tick ==
    /\ now < Epoch + MaxTicks
    /\ now' = now + 1
    /\ last' = [op |-> "tick"]
    /\ UNCHANGED <<streamVars, ollamaVars, cfgVars, connected, calls, stdioVars, wsVars, enhVars>>

NextStdio ==
    \/ \E ok \in BOOLEAN : Connect(ok)
    \/ Disconnect
    \/ \E c \in CallIds, ok \in BOOLEAN : SendRequest(c, ok)
    \/ \E c \in CallIds : TimerFire(c)
    \/ \E k \in 0..MaxCalls, split \in BOOLEAN : Data(k, split)
    \/ \E i \in 1..MaxCalls, kind \in {"result", "error"} : ServerRespond(i, kind)
    \/ ServerParseError
    \/ ProcError
    \/ ProcExit
    \/ Tick

SpecStdio == InitStdio /\ [][NextStdio]_vars


(* ----------------------- MCPClient (WebSocket) ------------------------- *)

InitWs ==
    /\ InitOllamaVars
    /\ InitStreamVars
    /\ InitStdioVars
    /\ InitCfgVars
    /\ InitEnhVars
    /\ connected = FALSE
    /\ calls = [c \in CallIds |-> NewCall]
    /\ now = Epoch
    /\ ws = "undefined"
    /\ listeners = {}
    /\ wsSent = <<>>
    /\ wsRecv = <<>>
    /\ last = [op |-> "init"]

\* connect(): this.ws = new WebSocket(url), taken when no socket is open or
\* being opened; the new socket object has no message listeners.
WsConnect ==
    /\ ws \in {"undefined", "closed"}
    /\ ws' = "connecting"
    /\ listeners' = {}
    /\ last' = [op |-> "wsConnect"]
    /\ UNCHANGED <<streamVars, ollamaVars, cfgVars, connected, calls, now, wsSent, wsRecv, stdioVars, enhVars>>

\* The socket's 'open' event.
WsOpen ==
    /\ ws = "connecting"
    /\ ws' = "open"
    /\ connected' = TRUE
    /\ last' = [op |-> "wsOpen"]
    /\ UNCHANGED <<streamVars, ollamaVars, cfgVars, calls, now, listeners, wsSent, wsRecv, stdioVars, enhVars>>

\* The socket's 'error' or 'close' event: connected is cleared, nothing else.
WsClosed ==
    /\ ws \in {"connecting", "open"}
    /\ ws' = "closed"
    /\ connected' = FALSE
    /\ wsSent' = <<>>
    /\ wsRecv' = <<>>
    /\ last' = [op |-> "wsClosed"]
    /\ UNCHANGED <<streamVars, ollamaVars, cfgVars, calls, now, listeners, stdioVars, enhVars>>

\* disconnect(): close and drop the socket, clear connected.
WsDisconnect ==
    /\ ws' = "undefined"
    /\ connected' = FALSE
    /\ listeners' = {}
    /\ wsSent' = <<>>
    /\ wsRecv' = <<>>
    /\ last' = [op |-> "wsDisconnect"]
    /\ UNCHANGED <<streamVars, ollamaVars, cfgVars, calls, now, stdioVars, enhVars>>

\* sendRequest() on the socket: throw when not connected; otherwise
\* id = Date.now(), arm the timer, register handleMessage, send the frame.
WsSendRequest(c) ==
    /\ NextCall(c)
    /\ IF ~connected
       THEN /\ calls' = Settle([calls EXCEPT ![c].issued = TRUE], c, "notconnected", 0)
            /\ UNCHANGED <<listeners, wsSent>>
       ELSE IF ws = "open"
       THEN /\ calls' = [calls EXCEPT ![c] =
                            [issued |-> TRUE, id |-> now, timer |-> "armed",
                             outcome |-> "none", value |-> 0, settles |-> 0]]
            /\ listeners' = listeners \cup {c}
            /\ wsSent' = Append(wsSent, [id |-> now, call |-> c])
       ELSE /\ calls' = Settle([calls EXCEPT ![c].issued = TRUE], c, "novalidconnection", 0)
            /\ UNCHANGED <<listeners, wsSent>>
    /\ last' = [op |-> "wsSendRequest", call |-> c]
    /\ UNCHANGED <<streamVars, ollamaVars, cfgVars, connected, now, ws, wsRecv, stdioVars, enhVars>>

\* The setTimeout callback of a socket call: reject with a timeout.  The
\* message listener is not removed.
WsTimerFire(c) ==
    /\ calls[c].timer = "armed"
    /\ now > calls[c].id
    /\ calls' = Settle([calls EXCEPT ![c].timer = "fired"], c, "timeout", 0)
    /\ last' = [op |-> "wsTimeout", call |-> c]
    /\ UNCHANGED <<streamVars, ollamaVars, cfgVars, connected, now, wsVars, stdioVars, enhVars>>

\* handleMessage of call c on message f: a message that does not parse
\* rejects the call and leaves listener and timer; a message with the call's
\* id clears the timer, removes the listener and settles the call.
RECURSIVE handleMessage(_, _, _, _)
handleMessage(todo, f, ls, cs) ==
    IF todo = {} THEN [ls |-> ls, cs |-> cs]
    ELSE LET c == CHOOSE x \in todo : \A y \in todo : x <= y IN
         IF f.kind = "malformed"
         THEN handleMessage(todo \ {c}, f, ls, Settle(cs, c, "parseerror", 0))
         ELSE IF f.id = cs[c].id
         THEN handleMessage(todo \ {c}, f, ls \ {c},
                            WrappedSettle(cs, c, f.kind, f.payload))
         ELSE handleMessage(todo \ {c}, f, ls, cs)

\* The socket's 'message' event: every registered listener gets the message.
WsMessage ==
    /\ ws = "open"
    /\ wsRecv /= <<>>
    /\ LET r == handleMessage(listeners, Head(wsRecv), listeners, calls)
       IN  /\ listeners' = r.ls
           /\ calls' = r.cs
    /\ wsRecv' = Tail(wsRecv)
    /\ last' = [op |-> "wsMessage", frame |-> Head(wsRecv)]
    /\ UNCHANGED <<streamVars, ollamaVars, cfgVars, connected, now, ws, wsSent, stdioVars, enhVars>>

\* The server answers one request with a frame carrying the request's id.
WsServerRespond(i, kind) ==
    /\ ws = "open"
    /\ i \in 1..Len(wsSent)
    /\ wsRecv' = Append(wsRecv, [id |-> wsSent[i].id, kind |-> kind,
                                 payload |-> wsSent[i].call])
    /\ wsSent' = RemoveAt(wsSent, i)
    /\ last' = [op |-> "wsRespond"]
    /\ UNCHANGED <<streamVars, ollamaVars, cfgVars, connected, calls, now, ws, listeners, stdioVars, enhVars>>

\* The server sends a message that is not JSON.
WsServerMalformed ==
    /\ ws = "open"
    /\ Len(wsRecv) < MaxCalls
    /\ wsRecv' = Append(wsRecv, Fragment)
    /\ last' = [op |-> "wsMalformed"]
    /\ UNCHANGED <<streamVars, ollamaVars, cfgVars, connected, calls, now, ws, listeners, wsSent, stdioVars, enhVars>>

NextWs ==
    \/ WsConnect
    \/ WsOpen
    \/ WsClosed
    \/ WsDisconnect
    \/ \E c \in CallIds : WsSendRequest(c)
    \/ \E c \in CallIds : WsTimerFire(c)
    \/ WsMessage
    \/ \E i \in 1..MaxCalls, kind \in {"result", "error"} : WsServerRespond(i, kind)
    \/ WsServerMalformed
    \/ Tick

SpecWs == InitWs /\ [][NextWs]_vars

\* What the runtime guarantees to the socket client: an armed timer fires and
\* a received message is delivered.  connect() arms no timer, and whether the
\* server ever accepts or refuses the connection is not the client's to say.
FairSpecWs ==
    /\ SpecWs
    /\ WF_vars(\E c \in CallIds : WsTimerFire(c))
    /\ WF_vars(WsMessage)


(* ------------------------- EnhancedMCPClient --------------------------- *)

\* enhancedMcpClient.ts lines 221-252: the catalogue every server reports.
ToolNames == {"read_file", "write_file", "delete_file", "list_directory"}

\* Tool names a caller may ask for.
AskedNames == ToolNames \cup {"B.some_tool"}

\* The descriptor documents validateConfig() may find: rejected, or valid
\* with any set of servers.
Documents ==
    {[valid |-> FALSE, servers |-> {}]}
        \cup {[valid |-> TRUE, servers |-> S] : S \in SUBSET Servers}

InitEnhanced ==
    /\ InitOllamaVars
    /\ InitStreamVars
    /\ InitStdioVars
    /\ InitCfgVars
    /\ InitWsVars
    /\ InitEnhVars
    /\ connected = FALSE
    /\ calls = [c \in CallIds |-> NewCall]
    /\ now = Epoch
    /\ last = [op |-> "init"]

Keys(m) == {m[i] : i \in 1..Len(m)}

\* Map.set(key, ...): a new key goes last, an existing key keeps its place.
MapSet(m, k) == IF k \in Keys(m) THEN m ELSE Append(m, k)

\* getToolsFromServer(serverId): the mock catalogue, tagged with the server.
getToolsFromServer(s) == {[name |-> n, serverId |-> s] : n \in ToolNames}

\* getAllTools(): the tools of every key of availableTools.
getAllTools == UNION {getToolsFromServer(s) : s \in Keys(availableTools)}

\* discoverTools(): availableTools.set(serverId, tools) for every entry of
\* activeConnections, in its order.
RECURSIVE discoverTools(_, _)
discoverTools(conns, tools) ==
    IF conns = <<>> THEN tools
    ELSE discoverTools(Tail(conns), MapSet(tools, Head(conns)))

\* connectAll() that starts connectToServer() for one server of the document
\* only.
ConnectAllStartOneServer(doc) ==
    /\ phase = "idle"
    /\ IF doc.valid
       THEN /\ phase' = "connecting"
            /\ attempt' = [s \in Servers |->
                              IF s \in doc.servers /\ \A t \in doc.servers : Position[s] <= Position[t]
                              THEN "pending" ELSE "none"]
            /\ lateHandle' = [s \in Servers |->
                                 IF s \in doc.servers THEN "none" ELSE lateHandle[s]]
            /\ last' = [op |-> "connectAllStart", servers |-> doc.servers]
       ELSE /\ phase' = "idle"
            /\ attempt' = [s \in Servers |-> "none"]
            /\ lateHandle' = lateHandle
            /\ last' = [op |-> "connectAll", ret |-> FALSE]
    /\ UNCHANGED <<streamVars, ollamaVars, cfgVars, connected, calls, now, activeConnections, availableTools,
                   alive, orphans, stdioVars, wsVars>>

\* The last connection promise has settled and the code of connectAll()
\* after `await Promise.allSettled` has not run yet: it runs from the
\* microtask queue, before any other call into the client.
TailDue ==
    phase = "connecting" /\ \A s \in Servers : attempt[s] /= "pending"

\* connectAll() whose early return for a rejected document also clears the
\* connected flag, as the catch block of MCPClient.connect() does.
ConnectAllStartResets(doc) ==
    /\ phase = "idle"
    /\ IF doc.valid
       THEN /\ phase' = "connecting"
            /\ attempt' = [s \in Servers |->
                              IF s \in doc.servers THEN "pending" ELSE "none"]
            /\ lateHandle' = [s \in Servers |->
                                 IF s \in doc.servers THEN "none" ELSE lateHandle[s]]
            /\ connected' = connected
            /\ last' = [op |-> "connectAllStart", servers |-> doc.servers]
       ELSE /\ phase' = "idle"
            /\ attempt' = [s \in Servers |-> "none"]
            /\ lateHandle' = lateHandle
            /\ connected' = FALSE
            /\ last' = [op |-> "connectAll", ret |-> FALSE]
    /\ UNCHANGED <<streamVars, ollamaVars, cfgVars, calls, now, activeConnections, availableTools,
                   alive, orphans, stdioVars, wsVars>>

\* connectAll(), up to the await of the connection promises: a rejected
\* document returns false at once; otherwise connectToServer() starts for
\* every server of the document.
ConnectAllStart(doc) ==
    /\ phase = "idle"
    /\ IF doc.valid
       THEN /\ phase' = "connecting"
            /\ attempt' = [s \in Servers |->
                              IF s \in doc.servers THEN "pending" ELSE "none"]
            /\ lateHandle' = [s \in Servers |->
                                 IF s \in doc.servers THEN "none" ELSE lateHandle[s]]
            /\ last' = [op |-> "connectAllStart", servers |-> doc.servers]
       ELSE /\ phase' = "idle"
            /\ attempt' = [s \in Servers |-> "none"]
            /\ lateHandle' = lateHandle
            /\ last' = [op |-> "connectAll", ret |-> FALSE]
    /\ UNCHANGED <<streamVars, ollamaVars, cfgVars, connected, calls, now, activeConnections, availableTools,
                   alive, orphans, stdioVars, wsVars>>

\* connectStdio/connectHttp/connectWebSocket succeed ('spawn', status 200,
\* 'open'): activeConnections.set(server.name, ...) and resolve(true).  The
\* entry a running child was registered under is overwritten: nothing
\* references that child any more.
AttemptOk(s) ==
    /\ attempt[s] = "pending"
    /\ attempt' = [attempt EXCEPT ![s] = "ok"]
    /\ activeConnections' = MapSet(activeConnections, s)
    /\ alive' = alive \cup {s}
    /\ orphans' = IF s \in alive /\ ServerType[s] = "stdio"
                  THEN orphans \cup {s} ELSE orphans
    /\ last' = [op |-> "attemptOk", server |-> s]
    /\ UNCHANGED <<streamVars, lateHandle, ollamaVars, cfgVars, connected, calls, now, availableTools, phase, stdioVars, wsVars>>

\* What can go wrong in a connect attempt: the child cannot be spawned, the
\* server refuses or answers with another status than 200, the attempt's
\* timer fires, the server's type has no adapter.
FailureCauses == {"spawnError", "refused", "timeout", "unsupported"}

\* connectToServer() without its try/catch: the throw of the default case
\* rejects the attempt's promise.
onConnectFailureUncaught(cause) ==
    IF cause = "unsupported" THEN "rejected" ELSE "fail"

\* What the attempt's promise becomes: the 'error' handlers, the timers and
\* the catch blocks of the adapters and of connectToServer() all end in
\* resolve(false) / return false.
onConnectFailure(cause) ==
    "fail"

\* The timer of connectStdio / connectWebSocket that resolves false and
\* leaves the transport it was waiting for as it is.
onConnectTimeoutLeavesOpen(s) ==
    "open"

\* What the attempt's timer does to the transport it was waiting for, before
\* it resolves false: process.kill(), ws.close(), and the axios timeout
\* aborts the request.  A closed handle emits no 'spawn' / 'open' any more.
onConnectTimeout(s) ==
    "closed"

\* The attempt fails.
AttemptFail(s) ==
    /\ attempt[s] = "pending"
    /\ \E cause \in FailureCauses :
          /\ attempt' = [attempt EXCEPT ![s] = onConnectFailure(cause)]
          /\ lateHandle' = [lateHandle EXCEPT ![s] =
                                IF cause = "timeout" THEN onConnectTimeout(s) ELSE "none"]
          /\ last' = [op |-> "attemptFail", server |-> s, cause |-> cause]
    /\ UNCHANGED <<streamVars, ollamaVars, cfgVars, connected, calls, now, activeConnections, availableTools,
                   phase, alive, orphans, stdioVars, wsVars>>

\* connectAll() after Promise.allSettled: count the successes, set
\* connected, discover the tools, return connected.
ConnectAllFinishAll ==
    /\ phase = "connecting"
    /\ \A s \in Servers : attempt[s] /= "pending"
    /\ connected' = (\A s \in Servers : attempt[s] \in {"ok", "none"})
    /\ availableTools' = discoverTools(activeConnections, availableTools)
    /\ phase' = "idle"
    /\ last' = [op |-> "connectAll", ret |-> connected']
    /\ UNCHANGED <<streamVars, lateHandle, ollamaVars, cfgVars, calls, now, activeConnections, attempt, alive, orphans,
                   stdioVars, wsVars>>

ConnectAllFinish ==
    /\ phase = "connecting"
    /\ \A s \in Servers : attempt[s] /= "pending"
    /\ LET successCount == Cardinality({s \in Servers : attempt[s] = "ok"})
       IN  connected' = (successCount > 0)
    /\ availableTools' = discoverTools(activeConnections, availableTools)
    /\ phase' = "idle"
    /\ last' = [op |-> "connectAll", ret |-> connected']
    /\ UNCHANGED <<streamVars, lateHandle, ollamaVars, cfgVars, calls, now, activeConnections, attempt, alive, orphans,
                   stdioVars, wsVars>>

\* The child exits, the socket closes or the HTTP server goes away after the
\* connection was established: the client has no handler that reacts.
TransportDown(s) ==
    /\ s \in alive
    /\ alive' = alive \ {s}
    /\ last' = [op |-> "transportDown", server |-> s]
    /\ UNCHANGED <<streamVars, lateHandle, ollamaVars, cfgVars, connected, calls, now, activeConnections, availableTools,
                   phase, attempt, orphans, stdioVars, wsVars>>

\* The server finishes starting / accepting after the attempt's timer has
\* fired.  The 'spawn' and 'open' handlers are still attached to the handle:
\* if the handle is still open its event is emitted and the handler runs
\* activeConnections.set(server.name, ...) and a resolve(true) that the
\* settled promise ignores; a closed handle emits nothing.
LateEvent(s) ==
    /\ lateHandle[s] /= "none"
    /\ ~TailDue
    /\ lateHandle' = [lateHandle EXCEPT ![s] = "none"]
    /\ IF lateHandle[s] = "open"
       THEN /\ activeConnections' = MapSet(activeConnections, s)
            /\ alive' = alive \cup {s}
            /\ orphans' = IF s \in alive /\ ServerType[s] = "stdio"
                          THEN orphans \cup {s} ELSE orphans
       ELSE UNCHANGED <<activeConnections, alive, orphans>>
    /\ last' = [op |-> "lateEvent", server |-> s, emitted |-> lateHandle[s] = "open"]
    /\ UNCHANGED <<streamVars, ollamaVars, cfgVars, connected, calls, now, availableTools, phase, attempt,
                   stdioVars, wsVars>>

\* A child that no map entry references exits.
OrphanExit(s) ==
    /\ s \in orphans
    /\ orphans' = orphans \ {s}
    /\ last' = [op |-> "orphanExit", server |-> s]
    /\ UNCHANGED <<streamVars, lateHandle, ollamaVars, cfgVars, connected, calls, now, activeConnections, availableTools,
                   phase, attempt, alive, stdioVars, wsVars>>

\* disconnect(): kill/close every connection of activeConnections, each in
\* its own try/catch, then clear both maps and connected.
EnhDisconnect ==
    /\ ~TailDue
    /\ activeConnections' = <<>>
    /\ availableTools' = <<>>
    /\ connected' = FALSE
    /\ alive' = alive \ Keys(activeConnections)
    /\ last' = [op |-> "disconnect"]
    /\ UNCHANGED <<streamVars, lateHandle, ollamaVars, cfgVars, calls, now, phase, attempt, orphans, stdioVars, wsVars>>

\* The loop of callTool(): the first key of availableTools whose tools hold
\* the name, or "none".
FindServer(name) ==
    LET hits == {i \in 1..Len(availableTools) :
                    \E t \in getToolsFromServer(availableTools[i]) : t.name = name}
    IN  IF hits = {} THEN "none"
        ELSE availableTools[CHOOSE i \in hits : \A j \in hits : i <= j]

\* executeToolOnServer(serverId, toolName): no entry in activeConnections
\* throws; otherwise the mock result of the switch.
executeToolOnServer(s, name) ==
    IF s \notin Keys(activeConnections) THEN "noConnection"
    ELSE IF name \in ToolNames THEN "result"
    ELSE "unknownTool"

\* callTool() that runs the tool on the first active connection without
\* looking the name up.
CallToolNoLookup(name) ==
    /\ ~TailDue
    /\ LET s == IF activeConnections = <<>> THEN "none" ELSE Head(activeConnections)
       IN  last' = [op |-> "callTool", tool |-> name,
                    server |-> s,
                    outcome |-> IF s = "none" THEN "notFound" ELSE "result"]
    /\ UNCHANGED <<streamVars, ollamaVars, cfgVars, connected, calls, now, enhVars, stdioVars, wsVars>>

\* callTool(toolName): dispatch to the server found, or throw "not found".
CallTool(name) ==
    /\ ~TailDue
    /\ LET s == FindServer(name)
       IN  last' = [op |-> "callTool", tool |-> name,
                    server |-> s,
                    outcome |-> IF s = "none" THEN "notFound"
                                ELSE executeToolOnServer(s, name)]
    /\ UNCHANGED <<streamVars, ollamaVars, cfgVars, connected, calls, now, enhVars, stdioVars, wsVars>>

NextEnhanced ==
    \/ \E doc \in Documents : ConnectAllStart(doc)
    \/ \E s \in Servers : AttemptOk(s)
    \/ \E s \in Servers : AttemptFail(s)
    \/ ConnectAllFinish
    \/ \E s \in Servers : TransportDown(s)
    \/ \E s \in Servers : OrphanExit(s)
    \/ \E s \in Servers : LateEvent(s)
    \/ EnhDisconnect
    \/ \E name \in AskedNames : CallTool(name)

SpecEnhanced == InitEnhanced /\ [][NextEnhanced]_vars

\* Every connect attempt ends: the transport's event arrives or the attempt's
\* own timer (server.timeout || 5000, the axios timeout) fires; and the code
\* after Promise.allSettled runs once every attempt has ended.
FairSpecEnhanced ==
    /\ SpecEnhanced
    /\ WF_vars(\E s \in Servers : AttemptOk(s) \/ AttemptFail(s))
    /\ WF_vars(ConnectAllFinish)

(* --------------------------- MCPConfigParser --------------------------- *)

\* The transport kinds a descriptor may carry: none, the three the client
\* knows, and one it does not know.
Types == {"", "stdio", "http", "websocket", "grpc"}

\* One entry of config.servers: its type and whether command / url is set.
Entries ==
    {[type |-> t, command |-> c, url |-> u] :
        t \in Types, c \in BOOLEAN, u \in BOOLEAN}

\* The entries a descriptor is written with: the field its type asks for is
\* set or not, the other one is not.
WrittenEntries ==
    {e \in Entries :
        /\ e.command => e.type = "stdio"
        /\ e.url => e.type \in {"http", "websocket"}}

\* The documents that may be at configPath.
Files ==
    {Missing, Unreadable, NoServers}
        \cup {[kind |-> "doc", servers |-> f] :
                 f \in UNION {[S -> WrittenEntries] : S \in SUBSET Servers}}

InitConfig ==
    /\ InitOllamaVars
    /\ InitStreamVars
    /\ InitStdioVars
    /\ InitWsVars
    /\ InitEnhVars
    /\ InitCfgVars
    /\ connected = FALSE
    /\ calls = [c \in CallIds |-> NewCall]
    /\ now = Epoch
    /\ last = [op |-> "init"]

\* loadConfig(): a missing document returns null; a document that cannot be
\* read or parsed shows an error and returns null; in both cases this.config
\* is not assigned.  Otherwise this.config is the parsed document.
loadConfig(f, cfg) ==
    IF f.kind = "missing" THEN [ret |-> Null, config |-> cfg, shown |-> FALSE]
    ELSE IF f.kind = "unreadable" THEN [ret |-> Null, config |-> cfg, shown |-> TRUE]
    ELSE [ret |-> f, config |-> f, shown |-> FALSE]

\* getServers(): one server per entry of config.servers, type defaulting to
\* 'stdio'.
getServers(cfg) ==
    {[name |-> s,
      type |-> IF cfg.servers[s].type = "" THEN "stdio" ELSE cfg.servers[s].type,
      command |-> cfg.servers[s].command,
      url |-> cfg.servers[s].url] : s \in DOMAIN cfg.servers}

\* The loop body of validateConfig() with the type check alone.
RejectedTypeOnly(e) ==
    e.type = ""

\* The checks of the loop of validateConfig() on one entry.
Rejected(e) ==
    \/ e.type = ""
    \/ e.type = "stdio" /\ ~e.command
    \/ e.type \in {"http", "websocket"} /\ ~e.url

\* validateConfig() on the document loadConfig() returned: false for null,
\* for a document without servers and for the first entry that fails a
\* check (the diagnostic names it); true otherwise.
validate(doc) ==
    IF doc.kind = "null" THEN [ok |-> FALSE, diagnostic |-> "none", server |-> "none"]
    ELSE IF doc.kind = "noservers"
    THEN [ok |-> FALSE, diagnostic |-> "invalidServers", server |-> "none"]
    ELSE LET bad == {s \in DOMAIN doc.servers : Rejected(doc.servers[s])}
         IN  IF bad = {} THEN [ok |-> TRUE, diagnostic |-> "none", server |-> "none"]
             ELSE LET s == CHOOSE x \in bad : \A y \in bad : Position[x] <= Position[y]
                  IN  [ok |-> FALSE,
                       diagnostic |-> IF doc.servers[s].type = "" THEN "missingType"
                                      ELSE IF doc.servers[s].type = "stdio"
                                      THEN "missingCommand" ELSE "missingUrl",
                       server |-> s]

\* The switch of connectToServer(): the adapter the server is handed to, or
\* "unsupported" when the throw of the default case is caught and the
\* attempt returns false.
connectToServer(server) ==
    IF server.type = "stdio" THEN "connectStdio"
    ELSE IF server.type = "http" THEN "connectHttp"
    ELSE IF server.type = "websocket" THEN "connectWebSocket"
    ELSE "unsupported"

\* The document at configPath is written, replaced or removed.
WriteFile(f) ==
    /\ file' = f
    /\ last' = [op |-> "writeFile"]
    /\ UNCHANGED <<streamVars, ollamaVars, config, connected, calls, now, stdioVars, wsVars, enhVars>>

\* A call of loadConfig().
LoadConfig ==
    /\ LET r == loadConfig(file, config)
       IN  /\ config' = r.config
           /\ last' = [op |-> "loadConfig", ret |-> r.ret, shown |-> r.shown]
    /\ UNCHANGED <<streamVars, ollamaVars, file, connected, calls, now, stdioVars, wsVars, enhVars>>

\* A call of validateConfig().
ValidateConfig ==
    /\ LET r == loadConfig(file, config)
           v == validate(r.ret)
       IN  /\ config' = r.config
           /\ last' = [op |-> "validateConfig", ok |-> v.ok,
                       diagnostic |-> v.diagnostic, server |-> v.server]
    /\ UNCHANGED <<streamVars, ollamaVars, file, connected, calls, now, stdioVars, wsVars, enhVars>>

\* A call of getServers().
GetServers ==
    /\ last' = [op |-> "getServers", servers |-> getServers(config)]
    /\ UNCHANGED <<streamVars, ollamaVars, cfgVars, connected, calls, now, stdioVars, wsVars, enhVars>>

\* connectAll() up to the start of the attempts: validateConfig(), return
\* false when it fails, otherwise connectToServer() for every server of
\* getServers().
ConnectAllDispatch ==
    /\ LET r == loadConfig(file, config)
           v == validate(r.ret)
       IN  /\ config' = r.config
           /\ last' = [op |-> "connectAllDispatch", ok |-> v.ok,
                       diagnostic |-> v.diagnostic, server |-> v.server,
                       attempts |-> IF v.ok
                                    THEN {[name |-> x.name, adapter |-> connectToServer(x)] :
                                             x \in getServers(r.config)}
                                    ELSE {}]
    /\ UNCHANGED <<streamVars, ollamaVars, file, connected, calls, now, stdioVars, wsVars, enhVars>>

NextConfig ==
    \/ \E f \in Files : WriteFile(f)
    \/ LoadConfig
    \/ ValidateConfig
    \/ GetServers
    \/ ConnectAllDispatch

SpecConfig == InitConfig /\ [][NextConfig]_vars

(* ----------------------------- OllamaClient ---------------------------- *)

InitOllama ==
    /\ InitStdioVars
    /\ InitWsVars
    /\ InitEnhVars
    /\ InitCfgVars
    /\ InitOllamaVars
    /\ InitStreamVars
    /\ connected = FALSE
    /\ calls = [c \in CallIds |-> NewCall]
    /\ now = Epoch
    /\ last = [op |-> "init"]

\* history.slice(-KeepLast).
LastMessages(h) ==
    IF Len(h) <= KeepLast THEN h ELSE SubSeq(h, Len(h) - KeepLast + 1, Len(h))

\* A trim that keeps the last KeepLast messages alone.
TrimLastOnly(h) ==
    IF Len(h) > HistoryLimit THEN LastMessages(h) ELSE h

\* The trim at the end of a successful chat(): the first message and the
\* last KeepLast messages once the history is longer than HistoryLimit.
Trim(h) ==
    IF Len(h) > HistoryLimit THEN <<h[1]>> \o LastMessages(h) ELSE h

\* updateConfiguration(): the system message is put first when missing.
UpdateConfiguration ==
    /\ conversationHistory' =
          IF conversationHistory = <<>> \/ conversationHistory[1] /= "system"
          THEN <<"system">> \o conversationHistory
          ELSE conversationHistory
    /\ last' = [op |-> "updateConfiguration"]
    /\ UNCHANGED <<streamVars, chatting, cfgVars, connected, calls, now, stdioVars, wsVars, enhVars>>

\* chat(), up to the await of axios.post: the user message is pushed.  One
\* chat() is followed at a time.
ChatStart ==
    /\ ~chatting
    /\ Len(conversationHistory) < MaxHistory
    /\ conversationHistory' = Append(conversationHistory, "user")
    /\ chatting' = TRUE
    /\ last' = [op |-> "chatStart"]
    /\ UNCHANGED <<streamVars, cfgVars, connected, calls, now, stdioVars, wsVars, enhVars>>

\* The answer arrives: the assistant message is pushed, the history is
\* trimmed, chat() returns the answer.
ChatOk ==
    /\ chatting
    /\ conversationHistory' = Trim(Append(conversationHistory, "assistant"))
    /\ chatting' = FALSE
    /\ last' = [op |-> "chat", ok |-> TRUE]
    /\ UNCHANGED <<streamVars, cfgVars, connected, calls, now, stdioVars, wsVars, enhVars>>

\* axios.post fails (refused, 404, timeout): the catch returns an error
\* text; the history keeps the user message and is not trimmed.
ChatFail ==
    /\ chatting
    /\ chatting' = FALSE
    /\ last' = [op |-> "chat", ok |-> FALSE]
    /\ UNCHANGED <<streamVars, conversationHistory, cfgVars, connected, calls, now,
                   stdioVars, wsVars, enhVars>>

\* clearHistory(): the system message alone.
ClearHistory ==
    /\ conversationHistory' = <<"system">>
    /\ last' = [op |-> "clearHistory"]
    /\ UNCHANGED <<streamVars, chatting, cfgVars, connected, calls, now, stdioVars, wsVars, enhVars>>

NextOllama ==
    \/ UpdateConfiguration
    \/ ChatStart
    \/ ChatOk
    \/ ChatFail
    \/ ClearHistory

SpecOllama == InitOllama /\ [][NextOllama]_vars

(* ----------------------- OllamaClient (streaming) ---------------------- *)

\* The lines a chunk of the response stream may hold: a JSON line with
\* message.content, the JSON line with done: true, and text JSON.parse
\* rejects (a line cut by the chunk boundary).
StreamLines == {"token", "done", "malformed"}

Chunks == UNION {[1..n -> StreamLines] : n \in 1..MaxChunk}

\* resolve() / reject() of the returned promise: the first one wins.
SettleChat(promise, how) == IF promise = "pending" THEN how ELSE promise

\* The 'end' handler: it resolves only when no token was received.
onEnd(msg, promise) ==
    IF msg = 0 THEN SettleChat(promise, "resolved") ELSE promise

\* The 'data' handler, line by line: a token is appended to
\* assistantMessage; a done line pushes the assistant message, trims the
\* history and resolves; a line that does not parse is skipped.
RECURSIVE onData(_, _)
onData(lines, st) ==
    IF lines = <<>> THEN st
    ELSE LET line == Head(lines)
             next == IF line = "token"
                     THEN [st EXCEPT !.msg = IF @ < MaxTokens THEN @ + 1 ELSE @]
                     ELSE IF line = "done"
                     THEN [st EXCEPT !.history = Trim(Append(@, "assistant")),
                                     !.promise = SettleChat(@, "resolved")]
                     ELSE st
         IN  onData(Tail(lines), next)

\* new OllamaClient() of out/ollamaClient.js.
InitOllamaStream ==
    /\ InitStdioVars
    /\ InitWsVars
    /\ InitEnhVars
    /\ InitCfgVars
    /\ InitOllamaVars
    /\ InitStreamVars
    /\ connected = FALSE
    /\ calls = [c \in CallIds |-> NewCall]
    /\ now = Epoch
    /\ last = [op |-> "init"]

\* chat(message, onToken): the user message is pushed and axios.post is
\* awaited.  When it fails the catch returns an error text; otherwise the
\* handlers are put on response.data and the promise is returned.  One
\* streaming chat() is followed at a time.
StreamChat(postOk) ==
    /\ stream /= "open"
    /\ chatPromise /= "pending"
    /\ Len(conversationHistory) < MaxStreamHistory
    /\ conversationHistory' = Append(conversationHistory, "user")
    /\ assistantMessage' = 0
    /\ stream' = IF postOk THEN "open" ELSE "none"
    /\ chatPromise' = IF postOk THEN "pending" ELSE "resolved"
    /\ last' = [op |-> "streamChat", postOk |-> postOk]
    /\ UNCHANGED <<chatting, cfgVars, connected, calls, now, stdioVars, wsVars, enhVars>>

\* response.data emits 'data'.
StreamData(chunk) ==
    /\ stream = "open"
    /\ LET st == onData(chunk, [msg |-> assistantMessage,
                                history |-> conversationHistory,
                                promise |-> chatPromise])
       IN  /\ Len(st.history) <= MaxStreamHistory
           /\ assistantMessage' = st.msg
           /\ conversationHistory' = st.history
           /\ chatPromise' = st.promise
    /\ last' = [op |-> "streamData", chunk |-> chunk]
    /\ UNCHANGED <<stream, chatting, cfgVars, connected, calls, now, stdioVars, wsVars, enhVars>>

\* response.data emits 'error': reject(error).
StreamError ==
    /\ stream = "open"
    /\ stream' = "errored"
    /\ chatPromise' = SettleChat(chatPromise, "rejected")
    /\ last' = [op |-> "streamError"]
    /\ UNCHANGED <<assistantMessage, ollamaVars, cfgVars, connected, calls, now, stdioVars,
                   wsVars, enhVars>>

\* response.data emits 'end'.
StreamEnd ==
    /\ stream = "open"
    /\ stream' = "ended"
    /\ chatPromise' = onEnd(assistantMessage, chatPromise)
    /\ last' = [op |-> "streamEnd"]
    /\ UNCHANGED <<assistantMessage, ollamaVars, cfgVars, connected, calls, now, stdioVars,
                   wsVars, enhVars>>

NextOllamaStream ==
    \/ \E postOk \in BOOLEAN : StreamChat(postOk)
    \/ \E chunk \in Chunks : StreamData(chunk)
    \/ StreamError
    \/ StreamEnd

SpecOllamaStream == InitOllamaStream /\ [][NextOllamaStream]_vars

(* =================== claims on MCPClient (WebSocket) =================== *)

\* C1 (as claimed): once a call that was given an id has an outcome, the
\* outcome is a result, a remote error or a timeout error, and nothing is
\* kept for the call: no requestQueue entry and no message listener.
C1_ExactlyOneNoLeak ==
    \A c \in CallIds :
        (calls[c].timer /= "unset" /\ calls[c].outcome /= "none") =>
            /\ calls[c].outcome \in {"result", "error", "timeout"}
            /\ c \notin Owners(requestQueue)
            /\ c \notin listeners

(* ===================== claims on MCPClient (stdio) ===================== *)

WellFormed(f) == f.kind /= "malformed"

\* The well-formed lines of a chunk that handleStdioResponse gets to parse.
Parsed(chunk) ==
    {i \in 1..Len(chunk) : \A j \in 1..i : WellFormed(chunk[j])}

\* C3 (as claimed): when a chunk holding one result frame that answers the
\* request of call c arrives while c is pending and its id is registered in
\* requestQueue, call c, and no other call, is resolved with that payload.
C3_RoundTrip ==
    [][\A c \in CallIds :
        ( /\ last'.op = "data"
          /\ Len(last'.chunk) = 1
          /\ last'.chunk[1].kind = "result"
          /\ last'.chunk[1].payload = c
          /\ last'.chunk[1].id = calls[c].id
          /\ Pending(c)
          /\ calls[c].id \in DOMAIN requestQueue )
        => /\ calls'[c].outcome = "result"
           /\ calls'[c].value = c
           /\ \A d \in CallIds \ {c} : calls'[d] = calls[d]]_vars

\* C4 (as claimed): disconnect() rejects every call pending in requestQueue
\* with a "connection closed" failure at the time of the close.
C4_DisconnectRejects ==
    [][last'.op = "disconnect" =>
        \A c \in Owners(requestQueue) : calls'[c].outcome = "closed"]_vars

\* C5: a call whose timeout timer has fired has been rejected with the
\* timeout error, and requestQueue holds neither its id nor its handlers.
C5_TimeoutDelivered ==
    \A c \in CallIds :
        calls[c].timer = "fired" =>
            /\ calls[c].outcome = "timeout"
            /\ calls[c].id \notin DOMAIN requestQueue
            /\ c \notin Owners(requestQueue)

C5_Witness ==
    \E c \in CallIds :
        /\ last = [op |-> "timeout", call |-> c]
        /\ calls[c].outcome = "timeout"

\* A frame of the chunk carries the id of call d.
Addresses(chunk, d) ==
    \E i \in Parsed(chunk) : chunk[i].id = calls[d].id

EntryKept(d) ==
    calls[d].id \in DOMAIN requestQueue =>
        /\ calls[d].id \in DOMAIN requestQueue'
        /\ requestQueue'[calls[d].id] = requestQueue[calls[d].id]

\* C6: no promise is settled twice, and a chunk of responses leaves every
\* call that has already timed out exactly as it was (a late response is a
\* no-op) and leaves every pending call that none of its frames addresses
\* pending, with its entry and timer.
C6_FirstWins ==
    /\ [](\A c \in CallIds : calls[c].settles <= 1)
    /\ [][last'.op = "data" =>
            \A c \in CallIds :
                /\ calls[c].timer = "fired" => calls'[c] = calls[c]
                /\ (Pending(c) /\ ~Addresses(last'.chunk, c)) =>
                       (calls'[c] = calls[c] /\ EntryKept(c))]_vars

\* A response for a call that has timed out was read.
C6_Witness ==
    /\ last.op = "data"
    /\ \E c \in CallIds :
          /\ calls[c].timer = "fired"
          /\ calls[c].outcome = "timeout"
          /\ \E i \in Parsed(last.chunk) :
                last.chunk[i].id = calls[c].id /\ last.chunk[i].payload = c

Orphan(f) == \A c \in CallIds : Pending(c) => calls[c].id /= f.id

\* C7: when a chunk holds a well-formed frame whose id matches no pending
\* call, every pending call that no frame of the chunk addresses keeps its
\* promise, entry and timer, and every later frame of the chunk whose id is
\* registered still completes the call registered under it.
C7_OrphanDiscarded ==
    [][last'.op = "data" =>
        \A i \in Parsed(last'.chunk) :
            Orphan(last'.chunk[i]) =>
                /\ \A d \in CallIds :
                      (Pending(d) /\ ~Addresses(last'.chunk, d)) =>
                          (calls'[d] = calls[d] /\ EntryKept(d))
                /\ \A j \in Parsed(last'.chunk) :
                      (j > i /\ last'.chunk[j].id \in DOMAIN requestQueue) =>
                          /\ calls'[requestQueue[last'.chunk[j].id]].outcome /= "none"
                          /\ last'.chunk[j].id \notin DOMAIN requestQueue']_vars

\* A chunk whose first frame answered a call that had timed out (an orphan)
\* and whose second frame resolved another call was read.
C7_Witness ==
    /\ last.op = "data"
    /\ Len(last.chunk) >= 2
    /\ 2 \in Parsed(last.chunk)
    /\ last.chunk[1].payload \in CallIds
    /\ last.chunk[2].payload \in CallIds
    /\ last.chunk[1].id /= last.chunk[2].id
    /\ calls[last.chunk[1].payload].timer = "fired"
    /\ calls[last.chunk[2].payload].outcome = "result"
    /\ calls[last.chunk[2].payload].value = last.chunk[2].payload

Registered(c) == calls[c].issued /\ calls[c].timer /= "unset"

\* C8 (as claimed): any two calls that were given an id have distinct ids,
\* and registering a call never overwrites another call's entry.
C8_UniqueIds ==
    /\ \A c, d \in CallIds :
          (c /= d /\ Registered(c) /\ Registered(d)) => calls[c].id /= calls[d].id
    /\ last.op = "sendRequest" => ~last.overwrote

(* ==================== claims on EnhancedMCPClient ====================== *)

\* C2: whenever connectAll() has returned, it returned true if and only if
\* at least one of the connect attempts it made reported success.
C2_ConnectAllResult ==
    last.op = "connectAll" =>
        (last.ret <=> \E s \in Servers : attempt[s] = "ok")

\* connectAll() returned true although one of its servers failed.
C2_Witness ==
    /\ last.op = "connectAll"
    /\ last.ret = TRUE
    /\ \E s \in Servers : attempt[s] = "fail"
    /\ \E s \in Servers : attempt[s] = "ok"

\* The connection of server s is established and its transport is up.
IsConnected(s) == s \in Keys(activeConnections) /\ s \in alive

\* C9 (as claimed): a callTool() of a name that no registry entry carries
\* fails as not found and reaches no server; and once connectAll() has
\* returned, a server whose connect attempt failed and that has no live
\* transport owns no registry entry and no callTool() is dispatched to it.
C9_UnknownTool ==
    /\ last.op = "callTool" =>
          /\ last.tool \notin {t.name : t \in getAllTools} =>
                (last.outcome = "notFound" /\ last.server = "none")
          /\ (phase = "idle" /\ last.server /= "none" /\ last.server \notin alive) =>
                attempt[last.server] /= "fail"
    /\ \A s \in Servers :
          (phase = "idle" /\ attempt[s] = "fail" /\ s \notin alive) =>
              \A t \in getAllTools : t.serverId /= s

\* C10 (as claimed): every tool of the registry is owned by a server whose
\* connection is Connected, or running it fails with "no connection".
C10_ConnectedOrFailFast ==
    \A t \in getAllTools :
        \/ IsConnected(t.serverId)
        \/ executeToolOnServer(t.serverId, t.name) = "noConnection"

\* C11 (as claimed): when connectAll() has returned, the registry holds
\* every tool of every server whose attempt succeeded and that is still
\* registered, each of them runs, and the registry holds no tool of a server
\* whose attempt failed and that has no live transport.
C11_PartialRegistry ==
    (last.op = "connectAll" /\ \E s \in Servers : attempt[s] /= "none") =>
        \A s \in Servers :
            /\ (attempt[s] = "ok" /\ s \in Keys(activeConnections)) =>
                  /\ getToolsFromServer(s) \subseteq getAllTools
                  /\ \A t \in getToolsFromServer(s) :
                        executeToolOnServer(s, t.name) = "result"
            /\ (attempt[s] = "fail" /\ s \notin alive) =>
                  \A t \in getAllTools : t.serverId /= s

\* The key of availableTools discovered last among those whose tools hold
\* the name, or "none".
LastDiscovered(name) ==
    LET hits == {i \in 1..Len(availableTools) :
                    \E t \in getToolsFromServer(availableTools[i]) : t.name = name}
    IN  IF hits = {} THEN "none"
        ELSE availableTools[CHOOSE i \in hits : \A j \in hits : i >= j]

\* C12 (as claimed): no two entries of the list getAllTools() returns carry
\* the same name, and a callTool() of a name that several servers expose is
\* dispatched to the server discovered last.
C12_UniqueNames ==
    /\ \A t, u \in getAllTools : t.name = u.name => t = u
    /\ (last.op = "callTool" /\ last.server /= "none") =>
           last.server = LastDiscovered(last.tool)

\* C13: connectAll() starts an attempt for every server of the document
\* before it waits for any of them; an attempt that succeeds registers its
\* server whatever state the other attempts are in; and every connectAll()
\* that started attempts returns.
C13_AllAttempted ==
    /\ [][last'.op = "connectAllStart" =>
            \A s \in last'.servers : attempt'[s] = "pending"]_vars
    /\ [][\A s \in Servers :
            (attempt[s] = "pending" /\ attempt'[s] = "ok") =>
                s \in Keys(activeConnections')]_vars
    /\ (phase = "connecting") ~> (phase = "idle")

\* connectAll() returned after A's attempt failed before B's succeeded, and
\* B is registered.
C13_Witness ==
    /\ last.op = "connectAll"
    /\ attempt["A"] = "fail"
    /\ attempt["B"] = "ok"
    /\ "B" \in Keys(activeConnections)
    /\ "A" \notin Keys(activeConnections)

(* =============== further claims on MCPClient (WebSocket) =============== *)

\* C14 (as claimed): every connect attempt ends, with success or with
\* failure: a socket that is being opened does not stay in that state.
C14_ConnectEnds ==
    (ws = "connecting") ~> (ws /= "connecting")

\* C17 (as claimed): when an open socket closes or fails on its own, the
\* client is no longer connected and every call pending on that socket is
\* rejected in the same step.
C17_CloseRejects ==
    [][(last'.op = "wsClosed" /\ ws = "open") =>
          /\ ~connected'
          /\ \A c \in listeners : Pending(c) => calls'[c].outcome /= "none"]_vars

(* ================ further claims on EnhancedMCPClient ================== *)

\* C15 (as claimed): when disconnect() has returned, no transport the client
\* opened is still up, connected is false, activeConnections is empty and
\* getAllTools() is empty.
C15_DisconnectAll ==
    last.op = "disconnect" =>
        /\ alive = {}
        /\ orphans = {}
        /\ ~connected
        /\ Keys(activeConnections) = {}
        /\ getAllTools = {}

(* ================= further claims on MCPClient (stdio) ================= *)

\* C16 (as claimed): only an explicit connect() makes a disconnected client
\* connected, and a sendRequest() on a disconnected client fails as not
\* connected without spawning a child.
C16_NoAutoReconnect ==
    /\ [][(~connected /\ connected') => last'.op = "connect"]_vars
    /\ [][(last'.op = "sendRequest" /\ ~connected) =>
            /\ stdioProcess' = stdioProcess
            /\ ~connected'
            /\ calls'[last'.call].outcome = "notconnected"]_vars

\* C18 (as claimed): a client whose child process failed to spawn, raised an
\* error or exited is not reported as connected.
C18_ExitDisconnects ==
    /\ stdioProcess = "dead" => ~connected
    /\ (last.op = "connect" /\ ~last.ok) => ~connected

(* ===================== claims on MCPConfigParser ======================= *)

\* C19 (as claimed): when loadConfig() has run on a missing or unreadable
\* document, it has returned null without throwing and getServers() is
\* empty, whatever was loaded before.
C19_MissingIsEmpty ==
    (last.op = "loadConfig" /\ file.kind \in {"missing", "unreadable"}) =>
        /\ last.ret = Null
        /\ getServers(config) = {}

UnknownKind(e) == e.type \notin {"", "stdio", "http", "websocket"}

\* C20 (as claimed): a document with a server of an unknown transport kind
\* is rejected by validateConfig(), and connectAll() hands no such server to
\* connectToServer(), where it would end as a failed connection attempt.
C20_UnknownKindRejected ==
    /\ ( /\ last.op \in {"validateConfig", "connectAllDispatch"}
         /\ file.kind = "doc"
         /\ \E s \in DOMAIN file.servers : UnknownKind(file.servers[s]) )
       => ~last.ok
    /\ last.op = "connectAllDispatch" =>
          \A a \in last.attempts : a.adapter /= "unsupported"

\* An entry that passes every check of validateConfig() and names a
\* transport the client has an adapter for.
ValidEntry(e) == ~Rejected(e) /\ ~UnknownKind(e)

\* C21 (as claimed): when connectAll() runs on a document, every server of
\* the document whose own entry is valid is handed to connectToServer(),
\* whatever is wrong with the entries of the other servers.
C21_ErrorIsPerServer ==
    (last.op = "connectAllDispatch" /\ file.kind = "doc") =>
        \A s \in DOMAIN file.servers :
            ValidEntry(file.servers[s]) =>
                \E a \in last.attempts : a.name = s /\ a.adapter /= "unsupported"

HasRequiredField(e) ==
    /\ e.type = "stdio" => e.command
    /\ e.type \in {"http", "websocket"} => e.url

\* C22: whenever validateConfig() accepts, the document it loaded gives
\* every stdio server a command and every http and websocket server a url;
\* and connectAll() hands a server to connectStdio only with a command and
\* to connectHttp or connectWebSocket only with a url.
C22_RequiredFields ==
    /\ (last.op \in {"validateConfig", "connectAllDispatch"} /\ last.ok) =>
          /\ config.kind = "doc"
          /\ \A s \in DOMAIN config.servers : HasRequiredField(config.servers[s])
    /\ last.op = "connectAllDispatch" =>
          \A a \in last.attempts :
              /\ a.adapter = "connectStdio" => config.servers[a.name].command
              /\ a.adapter \in {"connectHttp", "connectWebSocket"} =>
                     config.servers[a.name].url

\* connectAll() accepted a document with a stdio and an http server and
\* handed each to its adapter.
C22_Witness ==
    /\ last.op = "connectAllDispatch"
    /\ last.ok
    /\ \E a \in last.attempts : a.adapter = "connectStdio"
    /\ \E a \in last.attempts : a.adapter = "connectHttp"

(* ============== claims on EnhancedMCPClient (continued) ================ *)

C26_RebuiltWholesale ==
    (last.op = "connectAll" /\ \E s \in Servers : attempt[s] \in {"ok", "fail"}) =>
        /\ \A t \in getAllTools : attempt[t.serverId] = "ok"
        /\ \A s \in Servers :
              (attempt[s] = "ok" /\ s \in Keys(activeConnections)) =>
                  getToolsFromServer(s) \subseteq getAllTools

(* ============== claims on MCPClient (WebSocket, continued) ============= *)

\* C24 (as claimed): a message that does not parse is dropped and nothing
\* else: no call is completed or failed by it, every listener stays in
\* place for the messages that follow, and the client stays connected.
C24_MalformedDropped ==
    [][(last'.op = "wsMessage" /\ last'.frame.kind = "malformed") =>
          /\ calls' = calls
          /\ listeners' = listeners
          /\ connected' = connected]_vars

\* C29 (as claimed): a socket call whose timeout timer has fired has no
\* message listener registered on the socket any more.
C29_TimeoutRemovesListener ==
    \A c \in CallIds : calls[c].timer = "fired" => c \notin listeners

(* ================ claims on MCPClient (stdio, continued) =============== *)

\* C25 (as claimed): when a chunk of well-formed responses arrives, in
\* whatever order, every pending call whose id is registered and whose
\* request one of the responses answers under that id is completed with the
\* payload of that response.
C25_AnyOrder ==
    [][(last'.op = "data" /\ \A i \in 1..Len(last'.chunk) : WellFormed(last'.chunk[i])) =>
          \A c \in CallIds :
              ( /\ Pending(c)
                /\ calls[c].id \in DOMAIN requestQueue
                /\ \E i \in 1..Len(last'.chunk) :
                      /\ last'.chunk[i].payload = c
                      /\ last'.chunk[i].id = calls[c].id )
              => /\ calls'[c].outcome \in {"result", "error"}
                 /\ calls'[c].value = c]_vars

\* C27: every request the child holds and every response it has written
\* belongs to a call whose timer and handlers were registered; the step
\* that writes a request leaves its call with an armed timer and its
\* handlers under its id; and every response that is read answers a call
\* that was registered before.
C27_RegisteredBeforeSend ==
    /\ [](\A i \in 1..Len(stdin) :
             /\ Registered(stdin[i].call)
             /\ calls[stdin[i].call].id = stdin[i].id)
    /\ [](\A i \in 1..Len(stdout) :
             stdout[i].payload \in CallIds => Registered(stdout[i].payload))
    /\ [][(last'.op = "sendRequest" /\ stdin' /= stdin) =>
             /\ calls'[last'.call].timer = "armed"
             /\ calls'[last'.call].id \in DOMAIN requestQueue'
             /\ requestQueue'[calls'[last'.call].id] = last'.call]_vars
    /\ [][last'.op = "data" =>
             \A i \in 1..Len(last'.chunk) :
                 last'.chunk[i].payload \in CallIds =>
                     Registered(last'.chunk[i].payload)]_vars

\* The response to a call's request was read and completed that call.
C27_Witness ==
    /\ last.op = "data"
    /\ \E i \in 1..Len(last.chunk) :
          /\ last.chunk[i].payload \in CallIds
          /\ last.chunk[i].kind = "result"
          /\ calls[last.chunk[i].payload].outcome = "result"
          /\ calls[last.chunk[i].payload].timer = "cleared"

\* C28 (as claimed): whatever the chunk boundaries, every line the child
\* wrote is either handed to the handler as one whole line or still waiting
\* to be read; and every line of a chunk of whole lines whose id is
\* registered completes the call registered under it.
C28_LinesAreFrames ==
    [][last'.op = "data" =>
          /\ \A i \in 1..Len(stdout) :
                WellFormed(stdout[i]) =>
                    \/ \E j \in 1..Len(last'.chunk) : last'.chunk[j] = stdout[i]
                    \/ \E j \in 1..Len(stdout') : stdout'[j] = stdout[i]
          /\ (\A j \in 1..Len(last'.chunk) : WellFormed(last'.chunk[j])) =>
                \A j \in 1..Len(last'.chunk) :
                    last'.chunk[j].id \in DOMAIN requestQueue =>
                        /\ last'.chunk[j].id \notin DOMAIN requestQueue'
                        /\ calls'[requestQueue[last'.chunk[j].id]].outcome /= "none"]_vars

(* ======================= claims on OllamaClient ======================== *)

\* C30 (as claimed): whenever chat() has returned, with an answer or with
\* an error text, the history holds at most HistoryLimit messages and its
\* first message is the system message.
C30_HistoryBounded ==
    last.op = "chat" =>
        /\ Len(conversationHistory) <= HistoryLimit
        /\ conversationHistory[1] = "system"

(* ================= claims on the client's reported state =============== *)

\* getConnectedServers(): the keys of activeConnections.
getConnectedServers == Keys(activeConnections)

\* isConnected(): the flag and a non-empty map.
isConnected == connected /\ Cardinality(Keys(activeConnections)) > 0

\* C31 (as claimed): whenever no connectAll() is in flight, isConnected()
\* is true exactly when getConnectedServers() is non-empty, and when the
\* latest call was a connectAll() that made its connect attempts, its
\* return value is the same boolean.
C31_ReportsAgree ==
    phase = "idle" =>
        /\ isConnected <=> (getConnectedServers /= {})
        /\ (last.op = "connectAll" /\ \E s \in Servers : attempt[s] /= "none") =>
              /\ last.ret = isConnected
              /\ last.ret = (getConnectedServers /= {})

LiveHandles(s) ==
    (IF s \in alive /\ s \in getConnectedServers THEN {"registered"} ELSE {})
        \cup (IF s \in orphans THEN {"unreferenced"} ELSE {})

\* C33 (as claimed): every server has at most one live transport handle,
\* a connect attempt that succeeds leaves no earlier handle of its server
\* running unreferenced, and when disconnect() has returned no handle that
\* was created is still up.
C33_OneLiveHandle ==
    /\ \A s \in Servers : Cardinality(LiveHandles(s)) <= 1
    /\ last.op = "attemptOk" => last.server \notin orphans
    /\ last.op = "disconnect" => \A s \in Servers : LiveHandles(s) = {}

\* C34 (as claimed): when disconnect() was called during a connectAll(),
\* an attempt that completes after it (the answer of a server reached over
\* the network) registers no connection: no server is in the connected set
\* and the client does not report connected.
C34_DisconnectWins ==
    [][(/\ last.op = "disconnect"
        /\ phase = "connecting"
        /\ last'.op = "attemptOk"
        /\ ServerType[last'.server] /= "stdio") =>
          /\ getConnectedServers' = {}
          /\ ~isConnected']_vars

\* C35 (as claimed): a connectAll() that returns false because the
\* configuration is missing or invalid starts no connect attempt and leaves
\* activeConnections, the tool registry and the connected flag as they were.
C35_RejectedConfigNoEffect ==
    [][(phase = "idle" /\ last'.op = "connectAll") =>
          /\ ~last'.ret
          /\ phase' = "idle"
          /\ \A s \in Servers : attempt'[s] = "none"
          /\ activeConnections' = activeConnections
          /\ availableTools' = availableTools
          /\ connected' = connected
          /\ alive' = alive]_vars

\* connectAll() returned false for a rejected configuration while the client
\* was connected with a server registered: all of it is still there.
C35_Witness ==
    /\ last.op = "connectAll"
    /\ ~last.ret
    /\ phase = "idle"
    /\ connected
    /\ getConnectedServers /= {}
    /\ getAllTools /= {}

(* ================== further claims on OllamaClient ===================== *)

\* C36 (as claimed): however the response stream of a streaming chat() has
\* finished (after a done line, with an error, or by ending without a done
\* line, with or without tokens), the promise chat() returned is resolved
\* or rejected; nothing settles it after the stream has finished.
C36_ChatCompletes ==
    stream \in {"ended", "errored"} => chatPromise \in {"resolved", "rejected"}

\* C37 (as claimed): the conversation history is never empty and its first
\* message is the system message.
C37_SystemFirst ==
    /\ Len(conversationHistory) >= 1
    /\ conversationHistory[1] = "system"

\* A chat() has returned its answer and left a history of HistoryLimit
\* messages, those of failed calls among them: the system message is first.
C37_Witness ==
    /\ last.op = "chat"
    /\ last.ok
    /\ Len(conversationHistory) = HistoryLimit
    /\ conversationHistory[1] = "system"
    /\ conversationHistory[2] = "user"
    /\ conversationHistory[3] = "user"

====
